---- MODULE Spec2Model ----
(***************************************************************************)
(* bluemonday: the allowlist policy of an HTML sanitizer.                  *)
(*                                                                         *)
(* helpers.go holds the regular expressions used as attribute matchers and *)
(* the composite helpers (AllowStandardURLs, AllowStandardAttributes,      *)
(* AllowImages, AllowLists, AllowTables).  The Policy type, its primitive  *)
(* builder calls and the evaluation of an attribute are not part of        *)
(* helpers.go; they are modelled after sections 3 and 4 of the design      *)
(* document.                                                               *)
(*                                                                         *)
(* Attribute values are sequences of one-character strings.                *)
(***************************************************************************)
EXTENDS Integers, Sequences, FiniteSets

VARIABLES policy, calls, last

vars == <<policy, calls, last>>

(***************************************************************************)
(* Characters.  The alphabet is printable ASCII (without the backquote)    *)
(* and white space; \p{L} and \p{N} are taken within that alphabet.        *)
(***************************************************************************)
LowerSeq == <<"a","b","c","d","e","f","g","h","i","j","k","l","m",
              "n","o","p","q","r","s","t","u","v","w","x","y","z">>

UpperSeq == <<"A","B","C","D","E","F","G","H","I","J","K","L","M",
              "N","O","P","Q","R","S","T","U","V","W","X","Y","Z">>

Lower == {LowerSeq[i] : i \in DOMAIN LowerSeq}

Upper == {UpperSeq[i] : i \in DOMAIN UpperSeq}

Letter == Lower \cup Upper

Digit == {"0","1","2","3","4","5","6","7","8","9"}

Space == {" ", "\t", "\n", "\r", "\f"}

Punct == {"!", "\"", "#", "$", "%", "&", "'", "(", ")", "*", "+", ",", "-",
          ".", "/", ":", ";", "<", "=", ">", "?", "@", "[", "\\", "]", "^",
          "_", "{", "|", "}", "~"}

Alphabet == Letter \cup Digit \cup Space \cup Punct

\* strings.ToLower on one character
LowerChar(c) ==
  IF c \in Upper THEN LowerSeq[CHOOSE i \in DOMAIN UpperSeq : UpperSeq[i] = c]
  ELSE c

ToLower(s) == [i \in DOMAIN s |-> LowerChar(s[i])]

\* the characters a literal character matches under the flag (?i)
FoldCase(c) ==
  IF c \in Lower THEN {c, UpperSeq[CHOOSE i \in DOMAIN LowerSeq : LowerSeq[i] = c]}
  ELSE IF c \in Upper THEN {c, LowerChar(c)}
  ELSE {c}

(***************************************************************************)
(* Regular expressions (package regexp): the syntax tree of a pattern and  *)
(* the positions at which a match that starts in P can end.                *)
(***************************************************************************)
Cls(cs) == [t |-> "cls", cs |-> cs]

Cat(rs) == [t |-> "cat", rs |-> rs]

Alt(rs) == [t |-> "alt", rs |-> rs]

Opt(r) == [t |-> "opt", r |-> r]

Star(r) == [t |-> "star", r |-> r]

Plus(r) == [t |-> "plus", r |-> r]

Bol == [t |-> "bol"]

Eol == [t |-> "eol"]

Empty == Cat(<<>>)

\* r{n}
Rep(r, n) == Cat([i \in 1..n |-> r])

\* r{lo,hi}
RepRange(r, lo, hi) == Cat([i \in 1..hi |-> IF i <= lo THEN r ELSE Opt(r)])

\* a literal word
Lit(w) == Cat([i \in DOMAIN w |-> Cls({w[i]})])

\* a literal word under (?i)
LitI(w) == Cat([i \in DOMAIN w |-> Cls(FoldCase(w[i]))])

RECURSIVE Ends(_, _, _)
RECURSIVE CatEnds(_, _, _, _)
RECURSIVE StarEnds(_, _, _)

Ends(r, s, P) ==
  CASE r.t = "cls"  -> {p + 1 : p \in {q \in P : q <= Len(s) /\ s[q] \in r.cs}}
    [] r.t = "cat"  -> CatEnds(r.rs, 1, s, P)
    [] r.t = "alt"  -> UNION {Ends(r.rs[i], s, P) : i \in DOMAIN r.rs}
    [] r.t = "opt"  -> P \cup Ends(r.r, s, P)
    [] r.t = "star" -> StarEnds(r.r, s, P)
    [] r.t = "plus" -> StarEnds(r.r, s, Ends(r.r, s, P))
    [] r.t = "bol"  -> P \cap {1}
    [] r.t = "eol"  -> P \cap {Len(s) + 1}

CatEnds(rs, i, s, P) ==
  IF i > Len(rs) \/ P = {} THEN P
  ELSE CatEnds(rs, i + 1, s, Ends(rs[i], s, P))

StarEnds(r, s, P) ==
  LET Q == P \cup Ends(r, s, P)
  IN  IF Q = P THEN P ELSE StarEnds(r, s, Q)

\* (*Regexp).MatchString: the pattern matches somewhere in s
MatchString(re, s) == Ends(re, s, 1..(Len(s) + 1)) # {}

(***************************************************************************)
(* The matchers of helpers.go.                                             *)
(***************************************************************************)
\* (?i)center|justify|left|right|char
CellAlign ==
  Alt(<<LitI(<<"c","e","n","t","e","r">>),
        LitI(<<"j","u","s","t","i","f","y">>),
        LitI(<<"l","e","f","t">>),
        LitI(<<"r","i","g","h","t">>),
        LitI(<<"c","h","a","r">>)>>)

\* (?i)baseline|bottom|middle|top
CellVerticalAlign ==
  Alt(<<LitI(<<"b","a","s","e","l","i","n","e">>),
        LitI(<<"b","o","t","t","o","m">>),
        LitI(<<"m","i","d","d","l","e">>),
        LitI(<<"t","o","p">>)>>)

\* (?i)rtl|ltr
Direction ==
  Alt(<<LitI(<<"r","t","l">>),
        LitI(<<"l","t","r">>)>>)

\* (?i)left|right|top|texttop|middle|absmiddle|baseline|bottom|absbottom
ImageAlign ==
  Alt(<<LitI(<<"l","e","f","t">>),
        LitI(<<"r","i","g","h","t">>),
        LitI(<<"t","o","p">>),
        LitI(<<"t","e","x","t","t","o","p">>),
        LitI(<<"m","i","d","d","l","e">>),
        LitI(<<"a","b","s","m","i","d","d","l","e">>),
        LitI(<<"b","a","s","e","l","i","n","e">>),
        LitI(<<"b","o","t","t","o","m">>),
        LitI(<<"a","b","s","b","o","t","t","o","m">>)>>)

\* [0-9]+
Integer == Plus(Cls(Digit))

\* one character of the given set
Ch(cs) == Cls(cs)

D == Cls(Digit)

\* ([\+-]?\d{4})
ISOYear == Cat(<<Opt(Ch({"+", "-"})), Rep(D, 4)>>)

\* (0[1-9]|1[0-2])([12]\d|0[1-9]|3[01])?
ISOCalendar ==
  Cat(<<Alt(<<Cat(<<Ch({"0"}), Ch(Digit \ {"0"})>>),
              Cat(<<Ch({"1"}), Ch({"0", "1", "2"})>>)>>),
        Opt(Alt(<<Cat(<<Ch({"1", "2"}), D>>),
                  Cat(<<Ch({"0"}), Ch(Digit \ {"0"})>>),
                  Cat(<<Ch({"3"}), Ch({"0", "1"})>>)>>))>>)

\* W([0-4]\d|5[0-2])(-?[1-7])?
ISOWeek ==
  Cat(<<Ch({"W"}),
        Alt(<<Cat(<<Ch({"0", "1", "2", "3", "4"}), D>>),
              Cat(<<Ch({"5"}), Ch({"0", "1", "2"})>>)>>),
        Opt(Cat(<<Opt(Ch({"-"})), Ch({"1", "2", "3", "4", "5", "6", "7"})>>))>>)

\* (00[1-9]|0[1-9]\d|[12]\d{2}|3([0-5]\d|6[1-6]))
ISOOrdinal ==
  Alt(<<Cat(<<Ch({"0"}), Ch({"0"}), Ch(Digit \ {"0"})>>),
        Cat(<<Ch({"0"}), Ch(Digit \ {"0"}), D>>),
        Cat(<<Ch({"1", "2"}), Rep(D, 2)>>),
        Cat(<<Ch({"3"}),
              Alt(<<Cat(<<Ch({"0", "1", "2", "3", "4", "5"}), D>>),
                    Cat(<<Ch({"6"}), Ch({"1", "2", "3", "4", "5", "6"})>>)>>)>>)>>)

\* ([01]\d|2[0-3])
ISOHour ==
  Alt(<<Cat(<<Ch({"0", "1"}), D>>), Cat(<<Ch({"2"}), Ch({"0", "1", "2", "3"})>>)>>)

\* [0-5]\d
ISOSixty == Cat(<<Ch({"0", "1", "2", "3", "4", "5"}), D>>)

\* ((([01]\d|2[0-3])((:?)[0-5]\d)?|24\:?00)([\.,]\d+[^:])?)?
ISOClock ==
  Opt(Cat(<<Alt(<<Cat(<<ISOHour, Opt(Cat(<<Opt(Ch({":"})), ISOSixty>>))>>),
                  Cat(<<Ch({"2"}), Ch({"4"}), Opt(Ch({":"})), Ch({"0"}), Ch({"0"})>>)>>),
            Opt(Cat(<<Ch({".", ","}), Plus(D), Ch(Alphabet \ {":"})>>))>>))

\* ([0-5]\d([\.,]\d+)?)?
ISOSeconds == Opt(Cat(<<ISOSixty, Opt(Cat(<<Ch({".", ","}), Plus(D)>>))>>))

\* ([zZ]|([\+-])([01]\d|2[0-3]):?([0-5]\d)?)?
ISOZone ==
  Opt(Alt(<<Ch({"z", "Z"}),
            Cat(<<Ch({"+", "-"}), ISOHour, Opt(Ch({":"})), Opt(ISOSixty)>>)>>))

\* ([T\s] clock seconds zone)?
ISOTime == Opt(Cat(<<Ch({"T"} \cup Space), ISOClock, ISOSeconds, ISOZone>>))

\* ^ year ( (-?) (calendar | week | ordinal) time? )? $
ISO8601 ==
  Cat(<<Bol, ISOYear,
        Opt(Cat(<<Opt(Ch({"-"})), Alt(<<ISOCalendar, ISOWeek, ISOOrdinal>>), ISOTime>>)),
        Eol>>)

\* (?i)circle|disc|square|a|A|i|I|1
ListType ==
  Alt(<<LitI(<<"c","i","r","c","l","e">>),
        LitI(<<"d","i","s","c">>),
        LitI(<<"s","q","u","a","r","e">>),
        LitI(<<"a">>),
        LitI(<<"A">>),
        LitI(<<"i">>),
        LitI(<<"I">>),
        LitI(<<"1">>)>>)

\* [a-zA-Z0-9\-_\$]+
NamesAndSpaces == Plus(Cls(Letter \cup Digit \cup {"-", "_", "$"}))

\* ^[-+]?[0-9]*\.?[0-9]+$
Number ==
  Cat(<<Bol, Opt(Ch({"-", "+"})), Star(D), Opt(Ch({"."})), Plus(D), Eol>>)

\* [0-9]+%?
NumberOrPercent == Cat(<<Plus(D), Opt(Ch({"%"}))>>)

\* [\p{L}\p{N}\s\-_',:\[\]!\./\\\(\)&]*
Paragraph ==
  Star(Cls(Letter \cup Digit \cup Space
           \cup {"-", "_", "'", ",", ":", "[", "]", "!", ".", "/", "\\", "(", ")", "&"}))

\* [a-zA-Z]{2,20}, the matcher of "lang"
LangPattern == RepRange(Cls(Letter), 2, 20)

\* [a-zA-Z0-9\:\-_\.]+, the matcher of "id"
IdPattern == Plus(Cls(Letter \cup Digit \cup {":", "-", "_", "."}))

\* (?i)(?:row|col)(?:group)?, the matcher of "scope"
ScopePattern ==
  Cat(<<Alt(<<LitI(<<"r","o","w">>), LitI(<<"c","o","l">>)>>),
        Opt(LitI(<<"g","r","o","u","p">>))>>)

\* (?i)|nowrap, the matcher of "nowrap"
NowrapPattern == Alt(<<Empty, LitI(<<"n","o","w","r","a","p">>)>>)

\* an attribute registered without Matching(): any value
NoMatcher == "NoMatcher"

Matchers ==
  {"CellAlign", "CellVerticalAlign", "Direction", "ImageAlign", "Integer",
   "ISO8601", "ListType", "NamesAndSpaces", "Number", "NumberOrPercent",
   "Paragraph", "LangPattern", "IdPattern", "ScopePattern", "NowrapPattern"}

\* the compiled pattern a matcher name stands for
Regexp(m) ==
  CASE m = "CellAlign"         -> CellAlign
    [] m = "CellVerticalAlign" -> CellVerticalAlign
    [] m = "Direction"         -> Direction
    [] m = "ImageAlign"        -> ImageAlign
    [] m = "Integer"           -> Integer
    [] m = "ISO8601"           -> ISO8601
    [] m = "ListType"          -> ListType
    [] m = "NamesAndSpaces"    -> NamesAndSpaces
    [] m = "Number"            -> Number
    [] m = "NumberOrPercent"   -> NumberOrPercent
    [] m = "Paragraph"         -> Paragraph
    [] m = "LangPattern"       -> LangPattern
    [] m = "IdPattern"         -> IdPattern
    [] m = "ScopePattern"      -> ScopePattern
    [] m = "NowrapPattern"     -> NowrapPattern

\* Matcher.test: whether the matcher accepts the value
Accepts(m, v) == m = NoMatcher \/ MatchString(Regexp(m), v)

(***************************************************************************)
(* The Policy (design document, section 3): the admitted elements, the     *)
(* element-scoped and the global attribute rules, and the URL policy.      *)
(***************************************************************************)
NewPolicy ==
  [elements          |-> {},
   elementAttributes |-> {},
   globalAttributes  |-> {},
   urlPolicy         |-> [requireParseable |-> FALSE,
                          allowRelative    |-> FALSE,
                          allowedSchemes   |-> {},
                          forceNoFollow    |-> FALSE,
                          noFollowElements |-> {"a", "area", "link"}]]

\* p.AllowElements(names...)
AllowElements(p, names) == [p EXCEPT !.elements = @ \cup names]

\* p.AllowAttrs(attrs...).Matching(m).OnElements(els...): last write wins
AllowAttrsOnElements(p, attrs, m, els) ==
  [p EXCEPT !.elementAttributes =
     {r \in @ : ~(r.element \in els /\ r.attributeName \in attrs)}
     \cup {[element |-> e, attributeName |-> a, matcher |-> m] :
             e \in els, a \in attrs}]

\* p.AllowAttrs(attrs...).Matching(m).Globally(): last write wins
AllowAttrsGlobally(p, attrs, m) ==
  [p EXCEPT !.globalAttributes =
     {r \in @ : r.attributeName \notin attrs}
     \cup {[attributeName |-> a, matcher |-> m] : a \in attrs}]

RequireParseableURLs(p, require) ==
  [p EXCEPT !.urlPolicy.requireParseable = require]

AllowRelativeURLs(p, allow) == [p EXCEPT !.urlPolicy.allowRelative = allow]

AllowURLSchemes(p, schemes) ==
  [p EXCEPT !.urlPolicy.allowedSchemes = @ \cup schemes]

RequireNoFollowOnLinks(p, require) ==
  [p EXCEPT !.urlPolicy.forceNoFollow = require]

(***************************************************************************)
(* The composite helpers of helpers.go.                                    *)
(***************************************************************************)
Mailto == <<"m","a","i","l","t","o">>

Http == <<"h","t","t","p">>

Https == <<"h","t","t","p","s">>

\* AllowStandardURLs without AllowRelativeURLs(true)
AllowStandardURLsNoRelative(p) ==
  LET p1 == RequireParseableURLs(p, TRUE)
      p3 == AllowURLSchemes(p1, {Mailto, Http, Https})
  IN  RequireNoFollowOnLinks(p3, TRUE)

\* AllowStandardURLs without RequireNoFollowOnLinks(true)
AllowStandardURLsNoNoFollow(p) ==
  LET p1 == RequireParseableURLs(p, TRUE)
      p2 == AllowRelativeURLs(p1, TRUE)
  IN  AllowURLSchemes(p2, {Mailto, Http, Https})

\* AllowStandardURLs flipping the nofollow requirement instead of setting it
AllowStandardURLsToggle(p) ==
  LET p1 == RequireParseableURLs(p, TRUE)
      p2 == AllowRelativeURLs(p1, TRUE)
      p3 == AllowURLSchemes(p2, {Mailto, Http, Https})
  IN  RequireNoFollowOnLinks(p3, ~p.urlPolicy.forceNoFollow)

AllowStandardURLs(p) ==
  LET p1 == RequireParseableURLs(p, TRUE)
      p2 == AllowRelativeURLs(p1, TRUE)
      p3 == AllowURLSchemes(p2, {Mailto, Http, Https})
  IN  RequireNoFollowOnLinks(p3, TRUE)

AllowStandardAttributes(p) ==
  LET p1 == AllowAttrsGlobally(p, {"dir"}, "Direction")
      p2 == AllowAttrsGlobally(p1, {"lang"}, "LangPattern")
      p3 == AllowAttrsGlobally(p2, {"id"}, "IdPattern")
  IN  AllowAttrsGlobally(p3, {"title"}, "Paragraph")

\* AllowImages without the call of AllowStandardURLs
AllowImagesNoURLs(p) ==
  LET p1 == AllowAttrsOnElements(p, {"align"}, "ImageAlign", {"img"})
      p2 == AllowAttrsOnElements(p1, {"alt"}, "Paragraph", {"img"})
      p3 == AllowAttrsOnElements(p2, {"height", "width"}, "NumberOrPercent", {"img"})
  IN  AllowAttrsOnElements(p3, {"src"}, NoMatcher, {"img"})

\* AllowImages that also forbids relative URLs
AllowImagesAbsoluteOnly(p) ==
  LET p1 == AllowAttrsOnElements(p, {"align"}, "ImageAlign", {"img"})
      p2 == AllowAttrsOnElements(p1, {"alt"}, "Paragraph", {"img"})
      p3 == AllowAttrsOnElements(p2, {"height", "width"}, "NumberOrPercent", {"img"})
      p4 == AllowRelativeURLs(AllowStandardURLs(p3), FALSE)
  IN  AllowAttrsOnElements(p4, {"src"}, NoMatcher, {"img"})

AllowImages(p) ==
  LET p1 == AllowAttrsOnElements(p, {"align"}, "ImageAlign", {"img"})
      p2 == AllowAttrsOnElements(p1, {"alt"}, "Paragraph", {"img"})
      p3 == AllowAttrsOnElements(p2, {"height", "width"}, "NumberOrPercent", {"img"})
      p4 == AllowStandardURLs(p3)
  IN  AllowAttrsOnElements(p4, {"src"}, NoMatcher, {"img"})

\* AllowLists that leaves out "dd"
AllowListsNoDd(p) ==
  LET p1 == AllowAttrsOnElements(p, {"type"}, "ListType", {"ol", "ul"})
      p2 == AllowAttrsOnElements(p1, {"type"}, "ListType", {"li"})
      p3 == AllowAttrsOnElements(p2, {"value"}, "Integer", {"li"})
  IN  AllowElements(p3, {"dl", "dt"})

AllowLists(p) ==
  LET p1 == AllowAttrsOnElements(p, {"type"}, "ListType", {"ol", "ul"})
      p2 == AllowAttrsOnElements(p1, {"type"}, "ListType", {"li"})
      p3 == AllowAttrsOnElements(p2, {"value"}, "Integer", {"li"})
  IN  AllowElements(p3, {"dl", "dt", "dd"})

AllowTables(p) ==
  LET t1  == AllowAttrsOnElements(p, {"height", "width"}, "NumberOrPercent", {"table"})
      t2  == AllowAttrsOnElements(t1, {"summary"}, "Paragraph", {"table"})
      t3  == AllowElements(t2, {"caption"})
      t4  == AllowAttrsOnElements(t3, {"align"}, "CellAlign", {"col", "colgroup"})
      t5  == AllowAttrsOnElements(t4, {"height", "width"}, "NumberOrPercent",
                                  {"col", "colgroup"})
      t6  == AllowAttrsOnElements(t5, {"span"}, "Integer", {"colgroup", "col"})
      t7  == AllowAttrsOnElements(t6, {"valign"}, "CellVerticalAlign", {"col", "colgroup"})
      t8  == AllowAttrsOnElements(t7, {"align"}, "CellAlign", {"thead", "tr"})
      t9  == AllowAttrsOnElements(t8, {"valign"}, "CellVerticalAlign", {"thead", "tr"})
      t10 == AllowAttrsOnElements(t9, {"abbr"}, "Paragraph", {"td", "th"})
      t11 == AllowAttrsOnElements(t10, {"align"}, "CellAlign", {"td", "th"})
      t12 == AllowAttrsOnElements(t11, {"colspan", "rowspan"}, "Integer", {"td", "th"})
      t13 == AllowAttrsOnElements(t12, {"headers"}, "NamesAndSpaces", {"td", "th"})
      t14 == AllowAttrsOnElements(t13, {"height", "width"}, "NumberOrPercent", {"td", "th"})
      t15 == AllowAttrsOnElements(t14, {"scope"}, "ScopePattern", {"td", "th"})
      t16 == AllowAttrsOnElements(t15, {"valign"}, "CellVerticalAlign", {"td", "th"})
      t17 == AllowAttrsOnElements(t16, {"nowrap"}, "NowrapPattern", {"td", "th"})
      t18 == AllowAttrsOnElements(t17, {"align"}, "CellAlign", {"tbody", "tfoot"})
  IN  AllowAttrsOnElements(t18, {"valign"}, "CellVerticalAlign", {"tbody", "tfoot"})

(***************************************************************************)
(* The URL policy (design document, section 4.3).                          *)
(***************************************************************************)
\* The structural parse of a URL, as far as the policy reads it: the scheme
\* is the leading run of letters, digits, "+", "-" and "." (a letter first)
\* before the first ":"; a URL that starts with ":" does not parse.
RECURSIVE ScanScheme(_, _)
ScanScheme(s, i) ==
  IF i > Len(s) THEN [ok |-> TRUE, scheme |-> <<>>]
  ELSE IF s[i] \in Letter THEN ScanScheme(s, i + 1)
  ELSE IF s[i] \in Digit \cup {"+", "-", "."}
       THEN IF i = 1 THEN [ok |-> TRUE, scheme |-> <<>>] ELSE ScanScheme(s, i + 1)
  ELSE IF s[i] = ":"
       THEN IF i = 1 THEN [ok |-> FALSE, scheme |-> <<>>]
            ELSE [ok |-> TRUE, scheme |-> ToLower(SubSeq(s, 1, i - 1))]
  ELSE [ok |-> TRUE, scheme |-> <<>>]

ParseURL(s) == ScanScheme(s, 1)

Drop == [verdict |-> "Drop", value |-> <<>>, extraAttributes |-> {}]

Keep(v, extra) == [verdict |-> "Keep", value |-> v, extraAttributes |-> extra]

RelNoFollow == [name |-> "rel", token |-> "nofollow"]

\* admit(attributeName, rawURL, elementName)
Admit(up, rawURL, el) ==
  LET u == ParseURL(rawURL)
      isAbs == u.ok /\ u.scheme # <<>>
  IN  IF up.requireParseable /\ ~u.ok THEN Drop
      ELSE IF ~isAbs /\ ~up.allowRelative THEN Drop
      ELSE IF isAbs /\ u.scheme \notin up.allowedSchemes THEN Drop
      ELSE Keep(rawURL,
                IF up.forceNoFollow /\ el \in up.noFollowElements
                THEN {RelNoFollow} ELSE {})

\* the tree walker's merge of the injected rel token into the rel token list
\* the element already carries
MergeRel(rel, extra) ==
  IF RelNoFollow \in extra /\ (\A i \in DOMAIN rel : rel[i] # "nofollow")
  THEN Append(rel, "nofollow")
  ELSE rel

(***************************************************************************)
(* Policy.evaluate (design document, section 4.4).                         *)
(***************************************************************************)
URLAttributes == {"href", "src"}

\* isElementAdmissible(name)
Admissible(p, e) ==
  e \in p.elements \/ \E r \in p.elementAttributes : r.element = e

NoRule == "NoRule"

\* the matcher of the rule that applies to (e, a): the element-scoped rule,
\* else the global rule, else none
\* Resolve looking at the global rule first
ResolveGlobalFirst(p, e, a) ==
  LET scoped == {r \in p.elementAttributes : r.element = e /\ r.attributeName = a}
      global == {r \in p.globalAttributes : r.attributeName = a}
  IN  IF global # {} THEN (CHOOSE r \in global : TRUE).matcher
      ELSE IF scoped # {} THEN (CHOOSE r \in scoped : TRUE).matcher
      ELSE NoRule

Resolve(p, e, a) ==
  LET scoped == {r \in p.elementAttributes : r.element = e /\ r.attributeName = a}
      global == {r \in p.globalAttributes : r.attributeName = a}
  IN  IF scoped # {} THEN (CHOOSE r \in scoped : TRUE).matcher
      ELSE IF global # {} THEN (CHOOSE r \in global : TRUE).matcher
      ELSE NoRule

Evaluate(p, e, a, v) ==
  LET m == Resolve(p, e, a)
  IN  IF ~Admissible(p, e) THEN Drop
      ELSE IF m = NoRule THEN Drop
      ELSE IF ~Accepts(m, v) THEN Drop
      ELSE IF a \in URLAttributes THEN Admit(p.urlPolicy, v, e)
      ELSE Keep(v, {})

(***************************************************************************)
(* Inputs.                                                                 *)
(***************************************************************************)
\* the most builder calls made on one policy
MaxCalls == 2

\* the most helper calls made on one policy when only helpers are called
MaxHelperCalls == 5

JavascriptURL == <<"j","a","v","a","s","c","r","i","p","t",":","a","l","e","r","t","(","1",")">>

HttpURL == <<"h","t","t","p",":","/","/","e","x","a","m","p","l","e",".","c","o","m">>

UpperHttpsURL == <<"H","T","T","P","S",":","/","/","e","x","a","m","p","l","e",".","c","o","m">>

RelativeURL == <<"/","p","a","t","h">>

MailtoURL == <<"m","a","i","l","t","o",":","a","@","b",".","c">>

DataURL == <<"d","a","t","a",":","i","m","a","g","e","/","p","n","g",";","b","a","s","e","6","4",",","A","A">>

UnparseableURL == <<":","x">>

URLValues ==
  {JavascriptURL, HttpURL, UpperHttpsURL, RelativeURL, MailtoURL, DataURL,
   UnparseableURL}

TextTwo == <<"t","w","o">>

TextHello == <<"H","e","l","l","o",","," ","W","o","r","l","d","!">>

TextLess == <<"a","<","b">>

TextGreater == <<"b",">">>

TextValues == {<<"2">>, <<"1", "2">>, TextTwo, <<"1", "a">>, <<>>, TextHello, TextLess, TextGreater}

ISOFull == <<"2","0","1","4","-","0","5","-","2","0","T","1","0",":","0","0",":","0","0","Z">>

ISOYearOnly == <<"2","0","1","4">>

ISOBadMonth == <<"2","0","1","4","-","1","3","-","4","0">>

ISOBasic == <<"2","0","1","4","0","5","2","0">>

ISOValues == {ISOFull, ISOYearOnly, ISOBadMonth, ISOBasic}

Values == URLValues \cup TextValues \cup ISOValues

\* the rel token lists an element may already carry
Rels == {<<>>, <<"nofollow">>, <<"external">>}

URLTargets == {<<"a", "href">>, <<"img", "src">>}

TextTargets ==
  {<<"td", "colspan">>, <<"td", "title">>, <<"td", "abbr">>, <<"a", "title">>,
   <<"img", "alt">>, <<"table", "summary">>}

\* the arguments of the primitive builder calls
PrimElements == {"a", "td"}

PrimAttrs == {"href", "title"}

PrimMatchers == {NoMatcher, "Integer"}

Helpers ==
  {"AllowStandardURLs", "AllowStandardAttributes", "AllowImages", "AllowLists",
   "AllowTables"}

\* one builder call of the log, made again on p
ApplyCall(p, c) ==
  CASE c[1] = "AllowStandardURLs"       -> AllowStandardURLs(p)
    [] c[1] = "AllowStandardAttributes" -> AllowStandardAttributes(p)
    [] c[1] = "AllowImages"             -> AllowImages(p)
    [] c[1] = "AllowLists"              -> AllowLists(p)
    [] c[1] = "AllowTables"             -> AllowTables(p)
    [] c[1] = "AllowElements"           -> AllowElements(p, {c[2]})
    [] c[1] = "OnElements"              -> AllowAttrsOnElements(p, {c[2]}, c[3], {c[4]})
    [] c[1] = "Globally"                -> AllowAttrsGlobally(p, {c[2]}, c[3])

\* the calls cs[i..] applied in order to p
RECURSIVE ApplyCalls(_, _, _)
ApplyCalls(p, cs, i) ==
  IF i > Len(cs) THEN p ELSE ApplyCalls(ApplyCall(p, cs[i]), cs, i + 1)

(***************************************************************************)
(* The state machine: a policy is built by builder calls and then queried  *)
(* once; evaluate is pure, so one query per behaviour reaches every answer *)
(* the policy gives.                                                       *)
(***************************************************************************)
NoQuery ==
  [op |-> "none", element |-> "", attribute |-> "", matcher |-> NoRule,
   value |-> <<>>, rel |-> <<>>, out |-> Drop, emittedRel |-> <<>>]

Init ==
  /\ policy = NewPolicy
  /\ calls = <<>>
  /\ last = NoQuery

\* a builder call is made only before the policy is first used
CanBuild(max) == last.op = "none" /\ Len(calls) < max

CallAllowStandardURLs(max) ==
  /\ CanBuild(max)
  /\ policy' = AllowStandardURLs(policy)
  /\ calls' = Append(calls, <<"AllowStandardURLs">>)
  /\ UNCHANGED last

CallAllowStandardAttributes(max) ==
  /\ CanBuild(max)
  /\ policy' = AllowStandardAttributes(policy)
  /\ calls' = Append(calls, <<"AllowStandardAttributes">>)
  /\ UNCHANGED last

CallAllowImages(max) ==
  /\ CanBuild(max)
  /\ policy' = AllowImages(policy)
  /\ calls' = Append(calls, <<"AllowImages">>)
  /\ UNCHANGED last

CallAllowLists(max) ==
  /\ CanBuild(max)
  /\ policy' = AllowLists(policy)
  /\ calls' = Append(calls, <<"AllowLists">>)
  /\ UNCHANGED last

CallAllowTables(max) ==
  /\ CanBuild(max)
  /\ policy' = AllowTables(policy)
  /\ calls' = Append(calls, <<"AllowTables">>)
  /\ UNCHANGED last

CallAllowElements ==
  \E e \in PrimElements :
    /\ CanBuild(MaxCalls)
    /\ policy' = AllowElements(policy, {e})
    /\ calls' = Append(calls, <<"AllowElements", e>>)
    /\ UNCHANGED last

CallOnElements ==
  \E a \in PrimAttrs, m \in PrimMatchers, e \in PrimElements :
    /\ CanBuild(MaxCalls)
    /\ policy' = AllowAttrsOnElements(policy, {a}, m, {e})
    /\ calls' = Append(calls, <<"OnElements", a, m, e>>)
    /\ UNCHANGED last

CallGlobally ==
  \E a \in PrimAttrs, m \in PrimMatchers :
    /\ CanBuild(MaxCalls)
    /\ policy' = AllowAttrsGlobally(policy, {a}, m)
    /\ calls' = Append(calls, <<"Globally", a, m>>)
    /\ UNCHANGED last

\* the tree walker's query evaluate(element, attribute, value) on an element
\* that carries the rel tokens rel
Query(e, a, v, rel) ==
  LET out == Evaluate(policy, e, a, v)
  IN  /\ last.op = "none"
      /\ last' = [op |-> "evaluate", element |-> e, attribute |-> a,
                  matcher |-> Resolve(policy, e, a), value |-> v, rel |-> rel,
                  out |-> out, emittedRel |-> MergeRel(rel, out.extraAttributes)]
      /\ UNCHANGED <<policy, calls>>

EvaluateURL ==
  \E t \in URLTargets, v \in URLValues, rel \in Rels : Query(t[1], t[2], v, rel)

EvaluateText ==
  \E t \in TextTargets, v \in TextValues : Query(t[1], t[2], v, <<>>)

\* a matcher applied to a value on its own
Match ==
  \E m \in Matchers, v \in Values :
    /\ last.op = "none"
    /\ last' = [op |-> "match", element |-> "", attribute |-> "", matcher |-> m,
                value |-> v, rel |-> <<>>,
                out |-> IF Accepts(m, v) THEN Keep(v, {}) ELSE Drop,
                emittedRel |-> <<>>]
    /\ UNCHANGED <<policy, calls>>

Next ==
  \/ CallAllowStandardURLs(MaxCalls)
  \/ CallAllowStandardAttributes(MaxCalls)
  \/ CallAllowImages(MaxCalls)
  \/ CallAllowLists(MaxCalls)
  \/ CallAllowTables(MaxCalls)
  \/ CallAllowElements
  \/ CallOnElements
  \/ CallGlobally
  \/ EvaluateURL
  \/ EvaluateText

Spec == Init /\ [][Next]_vars

\* only the composite helpers, in any order and any number of times
NextHelpers ==
  \/ CallAllowStandardURLs(MaxHelperCalls)
  \/ CallAllowStandardAttributes(MaxHelperCalls)
  \/ CallAllowImages(MaxHelperCalls)
  \/ CallAllowLists(MaxHelperCalls)
  \/ CallAllowTables(MaxHelperCalls)

SpecHelpers == Init /\ [][NextHelpers]_vars

\* the matchers on their own
SpecMatch == Init /\ [][Match]_vars

(***************************************************************************)
(* Properties.                                                             *)
(***************************************************************************)
\* builder h is in the log
Called(h) == \E i \in DOMAIN calls : calls[i][1] = h

Evaluated == last.op = "evaluate"

Kept == last.out.verdict = "Keep"

\* the URLs a standard URL policy keeps: relative, or mailto, http, https
StandardKept == {HttpURL, UpperHttpsURL, RelativeURL, MailtoURL}

\* the last query is a URL on an admissible element whose rule has no value
\* matcher, in a policy on which AllowStandardURLs was called
C1_Case ==
  /\ Evaluated
  /\ Called("AllowStandardURLs")
  /\ last.attribute \in URLAttributes
  /\ Admissible(policy, last.element)
  /\ last.matcher = NoMatcher

\* C1: under a policy on which AllowStandardURLs was called, a URL is kept
\* (unchanged) exactly when it is relative or its scheme is, whatever its
\* case, one of mailto, http, https; "javascript:alert(1)", a data: URL and
\* an unparseable URL are dropped.
C1_StandardURLAdmission ==
  C1_Case =>
    /\ Kept <=> last.value \in StandardKept
    /\ Kept => last.out.value = last.value

C1_Witness ==
  /\ C1_Case
  /\ last.element = "a"
  /\ last.attribute = "href"
  /\ last.value = JavascriptURL
  /\ ~Kept

HasMarkup(v) == \E i \in DOMAIN v : v[i] \in {"<", ">"}

\* C2: a value that contains "<" or ">" is dropped wherever the Paragraph
\* matcher decides: title (global), alt on img, summary on table, abbr on
\* td and th.
C2_ParagraphRejectsMarkup ==
  (/\ Evaluated
   /\ last.matcher = "Paragraph"
   /\ last.attribute \in {"title", "alt", "summary", "abbr"}
   /\ Admissible(policy, last.element)
   /\ HasMarkup(last.value))
  => ~Kept

ScopedRules(e, a) ==
  {r \in policy.elementAttributes : r.element = e /\ r.attributeName = a}

GlobalRules(a) == {r \in policy.globalAttributes : r.attributeName = a}

\* what a rule with matcher m answers for the last query
VerdictOf(m) ==
  /\ ~Accepts(m, last.value) => last.out = Drop
  /\ (Accepts(m, last.value) /\ last.attribute \notin URLAttributes)
       => last.out = Keep(last.value, {})

\* C3: on an admissible element the element-scoped rule of an attribute
\* decides, also when a global rule for the same attribute has another
\* matcher; with only one of the two rules that rule decides; with neither
\* the attribute is dropped whatever its value.
C3_ScopedPrecedence ==
  (Evaluated /\ Admissible(policy, last.element)) =>
    LET scoped == ScopedRules(last.element, last.attribute)
        global == GlobalRules(last.attribute)
    IN  /\ scoped # {} => \A r \in scoped : VerdictOf(r.matcher)
        /\ (scoped = {} /\ global # {}) => \A r \in global : VerdictOf(r.matcher)
        /\ (scoped = {} /\ global = {}) => last.out = Drop

\* the scoped matcher (Integer) drops "two" although the global rule would
\* keep it
C3_Witness ==
  /\ Evaluated
  /\ last.element = "td"
  /\ last.attribute = "title"
  /\ last.value = TextTwo
  /\ ScopedRules("td", "title") = {[element |-> "td", attributeName |-> "title",
                                    matcher |-> "Integer"]}
  /\ GlobalRules("title") = {[attributeName |-> "title", matcher |-> NoMatcher]}
  /\ last.out = Drop

ListElements == {"ol", "ul", "li", "dl", "dt", "dd"}

TableElements ==
  {"table", "caption", "col", "colgroup", "thead", "tr", "td", "th", "tbody", "tfoot"}

AllElements ==
  ListElements \cup TableElements \cup PrimElements
  \cup {"img", "area", "link", "p", "time"}

\* the elements a builder call names: in AllowElements, in OnElements, or
\* in the element list of a composite helper
NamedBy(c) ==
  CASE c[1] = "AllowElements" -> {c[2]}
    [] c[1] = "OnElements"    -> {c[4]}
    [] c[1] = "AllowLists"    -> ListElements
    [] c[1] = "AllowTables"   -> TableElements
    [] c[1] = "AllowImages"   -> {"img"}
    [] OTHER                  -> {}

Named == UNION {NamedBy(calls[i]) : i \in DOMAIN calls}

\* C4: an element is admissible exactly when a builder call named it in
\* AllowElements or in OnElements; Globally() and AllowStandardAttributes
\* admit nothing, AllowLists admits exactly ol, ul, li, dl, dt, dd and
\* AllowTables exactly the ten table elements.  (A query changes neither
\* the policy nor the log, so the states before the query cover them all.)
C4_AdmissibleIffNamed ==
  last.op = "none" =>
    \A e \in AllElements : Admissible(policy, e) <=> e \in Named

C4_Witness ==
  /\ calls = << <<"AllowStandardAttributes">>, <<"AllowLists">> >>
  /\ {e \in AllElements : Admissible(policy, e)} = ListElements
  /\ policy.globalAttributes # {}

NoFollowCount(rel) == Cardinality({i \in DOMAIN rel : rel[i] = "nofollow"})

\* C5: with nofollow on links enabled by AllowStandardURLs, a kept URL on
\* a, area or link carries an injected rel with the token nofollow; the rel
\* tokens the element already has are preserved and nofollow appears once;
\* a kept URL on another element (img src) injects nothing.
C5_NoFollowOnLinks ==
  (/\ Evaluated
   /\ Called("AllowStandardURLs") \/ Called("AllowImages")
   /\ last.attribute \in URLAttributes
   /\ Kept)
  => IF last.element \in {"a", "area", "link"}
     THEN /\ RelNoFollow \in last.out.extraAttributes
          /\ \A i \in DOMAIN last.rel : last.emittedRel[i] = last.rel[i]
          /\ Len(last.emittedRel) <= Len(last.rel) + 1
          /\ NoFollowCount(last.emittedRel) = 1
     ELSE /\ last.out.extraAttributes = {}
          /\ last.emittedRel = last.rel

C5_Witness ==
  /\ Evaluated
  /\ Called("AllowStandardURLs")
  /\ last.element = "a"
  /\ last.attribute = "href"
  /\ last.value = HttpURL
  /\ Kept
  /\ last.rel = <<"external">>
  /\ last.emittedRel = <<"external", "nofollow">>

\* C6: ISO8601 accepts "2014-05-20T10:00:00Z" and "2014" and rejects
\* "2014-13-40".
C6_ISO8601Examples ==
  (last.op = "match" /\ last.matcher = "ISO8601") =>
    /\ last.value = ISOFull => Kept
    /\ last.value = ISOYearOnly => Kept
    /\ last.value = ISOBadMonth => ~Kept

WholeNumber(v) == v # <<>> /\ \A i \in DOMAIN v : v[i] \in Digit

\* C7: after AllowTables, evaluate("td", "colspan", v) keeps v unchanged
\* when v is one or more decimal digits and nothing else, and drops it
\* otherwise.
C7_ColspanWholeNumber ==
  (/\ Evaluated
   /\ Called("AllowTables")
   /\ last.element = "td"
   /\ last.attribute = "colspan")
  => IF WholeNumber(last.value)
     THEN last.out = Keep(last.value, {})
     ELSE last.out = Drop

\* no two rules for one (element, attribute) key or one global attribute
NoDuplicateRules(p) ==
  /\ \A r1, r2 \in p.elementAttributes :
       (r1.element = r2.element /\ r1.attributeName = r2.attributeName) => r1 = r2
  /\ \A r1, r2 \in p.globalAttributes :
       r1.attributeName = r2.attributeName => r1 = r2

\* C8: the builder calls made so far, made once more in the same order,
\* leave the policy as it is (the same elements, rules and URL policy), and
\* no key has two rules.  (A query changes neither the policy nor the log,
\* so the states before the query cover them all.)
C8_BuilderIdempotent ==
  last.op = "none" =>
    /\ ApplyCalls(policy, calls, 1) = policy
    /\ NoDuplicateRules(policy)

\* a rule is overwritten by a later call with another matcher
C8_Witness ==
  /\ calls = << <<"OnElements", "title", "Integer", "td">>,
                <<"OnElements", "title", NoMatcher, "td">> >>
  /\ ScopedRules("td", "title") = {[element |-> "td", attributeName |-> "title",
                                    matcher |-> NoMatcher]}

StandardURLPolicy ==
  [requireParseable |-> TRUE,
   allowRelative    |-> TRUE,
   allowedSchemes   |-> {Mailto, Http, Https},
   forceNoFollow    |-> TRUE,
   noFollowElements |-> {"a", "area", "link"}]

\* C9: after AllowImages, img is admissible, src on img has no value
\* matcher, the URL policy is the standard one, and evaluate("img", "src", u)
\* keeps u exactly when the standard URL policy does: a data: URL is
\* dropped, an http or https URL and a relative URL are kept.
C9_ImagesUseStandardURLs ==
  Called("AllowImages") =>
    /\ Admissible(policy, "img")
    /\ Resolve(policy, "img", "src") = NoMatcher
    /\ policy.urlPolicy = StandardURLPolicy
    /\ (Evaluated /\ last.element = "img" /\ last.attribute = "src") =>
         /\ Kept <=> last.value \in StandardKept
         /\ Kept => last.out = Keep(last.value, {})

C9_Witness ==
  /\ Called("AllowImages")
  /\ ~Called("AllowStandardURLs")
  /\ Evaluated
  /\ last.element = "img"
  /\ last.attribute = "src"
  /\ last.value = DataURL
  /\ ~Kept

HelperOrder ==
  <<"AllowStandardURLs", "AllowStandardAttributes", "AllowImages", "AllowLists",
    "AllowTables">>

\* the helpers of hs applied once each, in the order of HelperOrder
RECURSIVE InOrder(_, _, _)
InOrder(p, hs, i) ==
  IF i > Len(HelperOrder) THEN p
  ELSE InOrder(IF HelperOrder[i] \in hs THEN ApplyCall(p, <<HelperOrder[i]>>) ELSE p,
               hs, i + 1)

\* the rules of two policies agree on every key both have
Compatible(p, q) ==
  /\ \A r \in p.elementAttributes, t \in q.elementAttributes :
       (r.element = t.element /\ r.attributeName = t.attributeName) => r = t
  /\ \A r \in p.globalAttributes, t \in q.globalAttributes :
       r.attributeName = t.attributeName => r = t

\* C10: the composite helpers applied in any order (and any number of
\* times) give the policy that the same helpers give in one fixed order, and
\* no two helpers register different matchers for one key.
C10_HelpersCommute ==
  /\ policy = InOrder(NewPolicy, {calls[i][1] : i \in DOMAIN calls}, 1)
  /\ \A g, h \in Helpers :
       Compatible(ApplyCall(NewPolicy, <<g>>), ApplyCall(NewPolicy, <<h>>))

\* all five helpers, in the reverse of the fixed order
C10_Witness ==
  /\ calls = [i \in 1..5 |-> <<HelperOrder[6 - i]>>]
  /\ policy = InOrder(NewPolicy, Helpers, 1)

====
